---- MODULE Spec2Model ----
(***************************************************************************)
(* RetailMetrics mock data generator (src/data.js).                        *)
(*                                                                         *)
(* The generators are pure functions of their input and of the values      *)
(* Math.random() returns; they are modelled as operators that take the     *)
(* random source explicitly.  Numbers the code keeps as decimals are kept  *)
(* as scaled integers (hundredths for toFixed(2), tenths for toFixed(1),   *)
(* 1e-4 for toFixed(4)); the scale is stated at each definition.           *)
(***************************************************************************)
EXTENDS Integers, Sequences, FiniteSets, TLC

(***************************************************************************)
(* Bounds of the model.                                                    *)
(***************************************************************************)
\* Math.random() takes the values 0, 1/Grid, ..., (Grid-1)/Grid and the
\* largest value below 1.
Grid == 2
\* Number of pseudo-random streams besides the constant ones.
Seeds == 3
\* initializeMockData asks for 200 stores; the model asks for StoreCount.
StoreCount == 3
\* Counts handed to generateStores when it is checked on its own:
\* 0..MaxCount, and LargeCount for ids of more than three digits.
MaxCount == 12
LargeCount == 1001
\* Length of the long store lists handed to generateSalesData when it is
\* checked on its own (initializeMockData asks for as many).
ManyStores == 200

(***************************************************************************)
(* Constant lists, src/data.js lines 8-36.                                 *)
(***************************************************************************)
regions == <<"Northeast", "Southeast", "Midwest", "Southwest", "West">>
storeTypes == <<"Mall", "Street", "Outlet", "Flagship">>
categories == <<"Men's", "Women's", "Children's", "Accessories", "Footwear">>
departments ==
  <<"Men's Casual", "Men's Formal", "Women's Casual", "Women's Formal",
    "Women's Athletic", "Children's", "Accessories", "Footwear">>
timeRanges ==
  <<"Today", "Yesterday", "Last 7 Days", "Last 30 Days", "This Month",
    "Last Month", "This Quarter", "Last Quarter", "YTD", "Last Year">>
cityByRegion ==
  [Northeast |-> <<"New York", "Boston", "Philadelphia", "Washington DC", "Pittsburgh">>,
   Southeast |-> <<"Miami", "Atlanta", "Charlotte", "Nashville", "Orlando">>,
   Midwest |-> <<"Chicago", "Detroit", "Minneapolis", "Cleveland", "Indianapolis">>,
   Southwest |-> <<"Dallas", "Houston", "Phoenix", "Austin", "San Antonio">>,
   West |-> <<"Los Angeles", "San Francisco", "Seattle", "Portland", "Denver">>]
streets ==
  <<"Fashion Ave", "Retail Row", "Main St", "Market St", "Commerce Blvd",
    "Shopping Center Dr">>
firstNames ==
  <<"Alex", "Sarah", "Michael", "Jessica", "David", "Emily", "James",
    "Jennifer", "Robert", "Lisa">>
lastNames ==
  <<"Johnson", "Smith", "Williams", "Brown", "Jones", "Miller", "Davis",
    "Garcia", "Rodriguez", "Wilson">>
positions ==
  <<"Sales Associate", "Department Lead", "Assistant Manager", "Store Manager",
    "Inventory Specialist">>
products ==
  [c \in {categories[n] : n \in 1..Len(categories)} |->
     CASE c = "Men's" ->
            <<"Classic Button-Down Shirt", "Slim-Fit Jeans", "Wool Blazer",
              "Cotton T-Shirt", "Chino Pants">>
       [] c = "Women's" ->
            <<"Designer Denim Jacket", "Floral Sundress", "Cashmere Sweater",
              "Silk Blouse", "Tailored Pants">>
       [] c = "Children's" ->
            <<"Graphic T-Shirt", "Denim Overalls", "Colorful Leggings",
              "School Uniform", "Puffer Jacket">>
       [] c = "Accessories" ->
            <<"Leather Belt", "Designer Sunglasses", "Winter Scarf",
              "Statement Necklace", "Leather Wallet">>
       [] c = "Footwear" ->
            <<"Running Sneakers", "Leather Boots", "Casual Loafers",
              "Dress Shoes", "Summer Sandals">>]

(***************************************************************************)
(* Generic helpers.                                                        *)
(***************************************************************************)
RECURSIVE SumOver(_, _, _)
\* Sum of f[n] for n in lo..hi (a running total, or Array.prototype.reduce
\* with +), split in halves to keep the evaluation shallow.
SumOver(f, lo, hi) ==
  IF lo > hi THEN 0
  ELSE IF lo = hi THEN f[lo]
  ELSE LET mid == (lo + hi) \div 2
       IN SumOver(f, lo, mid) + SumOver(f, mid + 1, hi)

Abs(x) == IF x < 0 THEN -x ELSE x

(***************************************************************************)
(* Math.random().  A random source is a record                             *)
(*   [seed, site, offset, vals]:                                           *)
(* the draw made at call site `site` with number offset + i is vals[i]     *)
(* when the source enumerates that draw, and otherwise comes from the      *)
(* stream of                                                               *)
(* `seed`: seeds 0..Grid are the constant streams, larger seeds are mixed. *)
(* A draw k stands for Math.random() = k/Grid (k < Grid) or for the        *)
(* largest double below 1 (k = Grid).                                      *)
(***************************************************************************)
Sites ==
  <<"store.region", "store.city", "store.type", "store.lat", "store.lng",
    "store.openDate", "store.size", "store.streetNumber", "store.street",
    "store.first", "store.last",
    "sales.dailySales", "sales.transactions", "sales.regionSales",
    "sales.categorySales", "sales.categoryChange", "sales.storeSales",
    "sales.storeChange", "sales.summaryChange", "sales.conversionRate",
    "inv.totalItems", "inv.totalValue", "inv.turnoverRate", "inv.outOfStock",
    "inv.cat.itemCount", "inv.cat.value", "inv.cat.turnoverRate",
    "inv.store.itemCount", "inv.store.value", "inv.store.turnoverRate",
    "inv.store.outOfStock",
    "det.staffCount", "det.dept.sales", "det.dept.percentOfStore",
    "det.dept.percentChange", "det.staff.bound", "det.staff.first",
    "det.staff.last", "det.staff.position", "det.staff.salesTotal",
    "det.staff.transactionCount", "det.totalValue", "det.turnoverRate",
    "det.item.bound", "det.item.category", "det.item.product",
    "det.item.unitsSold", "det.item.revenue", "det.item.id",
    "det.hist.sales", "det.hist.transactions">>

SiteNo(site) == CHOOSE n \in 1..Len(Sites) : Sites[n] = site

MathRandom(rnd, site, i) ==
  IF site = rnd.site /\ (i - rnd.offset) \in 1..Len(rnd.vals)
  THEN rnd.vals[i - rnd.offset]
  ELSE IF rnd.seed <= Grid THEN rnd.seed
  ELSE LET x == (rnd.seed * 31 + SiteNo(site) * 17 + i * 13) % 10007
       IN (((x * x) \div 7) % 1009) % (Grid + 1)

Stream(seed) == [seed |-> seed, site |-> "", offset |-> 0, vals |-> <<>>]

\* Math.floor(Math.random() * n) for the draw k.
FloorRandomTimes(k, n) == IF k = Grid THEN n - 1 ELSE (k * n) \div Grid

getRandomInt(min, max, k) == FloorRandomTimes(k, max - min + 1) + min

\* min and max are given in units of 10^-decimals; so is the result:
\* parseFloat((random * (max - min) + min).toFixed(decimals)).
getRandomFloat(min, max, k) == min + (2 * k * (max - min) + Grid) \div (2 * Grid)

getRandomElement(array, k) == array[FloorRandomTimes(k, Len(array)) + 1]

(***************************************************************************)
(* String(i).padStart(targetLength, padString) for a one-character pad.    *)
(***************************************************************************)
RECURSIVE Repeat(_, _)
Repeat(s, n) == IF n <= 0 THEN "" ELSE s \o Repeat(s, n - 1)

padStart(s, targetLength, padString) ==
  IF Len(s) >= targetLength THEN s
  ELSE Repeat(padString, targetLength - Len(s)) \o s

(***************************************************************************)
(* Number.prototype.toFixed and Math.round on a quotient n/d (d >= 0):     *)
(* the integer nearest to scale*n/d, a half rounded away from zero         *)
(* (toFixed) or up (Math.round; the two agree on the non-negative values   *)
(* Math.round is applied to).  scale = 100 is toFixed(2) in hundredths,    *)
(* scale = 10 is toFixed(1) in tenths, scale = 1 is Math.round.  On an     *)
(* exact half that the double n/d cannot represent, toFixed follows the    *)
(* double's error and may give the lower neighbour; the properties below   *)
(* allow either neighbour.                                                 *)
(***************************************************************************)
\* What a division by zero yields in JavaScript, and toFixed and parseFloat
\* hand on unchanged: Infinity or -Infinity for n / 0, NaN for 0 / 0.  They
\* are held as integers no finite value of the model comes near.
Infinity == 2147483647

NaN == 2147483646

isFinite(x) == x \notin {Infinity, -Infinity, NaN}

RoundQuotient(n, d, scale) ==
  IF d = 0
  THEN IF n = 0 THEN NaN ELSE IF n < 0 THEN -Infinity ELSE Infinity
  ELSE LET a == Abs(n)
           q == a \div d
           r == a % d
           m == scale * q + (2 * scale * r + d) \div (2 * d)
       IN IF n < 0 THEN -m ELSE m

toFixed(n, d, scale) == RoundQuotient(n, d, scale)

MathRound(n, d) == RoundQuotient(n, d, 1)

(***************************************************************************)
(* getRandomCoordinates, in units of 1e-4 degree.                          *)
(***************************************************************************)
regionCenters ==
  [Northeast |-> [lat |-> 407000, lng |-> -740000],
   Southeast |-> [lat |-> 337000, lng |-> -844000],
   Midwest |-> [lat |-> 419000, lng |-> -876000],
   Southwest |-> [lat |-> 328000, lng |-> -968000],
   West |-> [lat |-> 340000, lng |-> -1182000]]

getRandomCoordinates(region, kLat, kLng) ==
  LET center == regionCenters[region]
  IN [lat |-> center.lat + getRandomFloat(-15000, 15000, kLat),
      lng |-> center.lng + getRandomFloat(-15000, 15000, kLng)]

(***************************************************************************)
(* generateStores.  openDate is the number of days after 2015-01-01        *)
(* (getRandomDate over 2015-01-01 .. 2022-12-31, then formatDate).         *)
(***************************************************************************)
\* Mutant of StoreId: the number is not padded.
StoreIdUnpadded(i) == "ST" \o ToString(i)

StoreId(i) == "ST" \o padStart(ToString(i), 3, "0")

StoreRecord(i, rnd) ==
  LET storeId == StoreId(i)
      region == getRandomElement(regions, MathRandom(rnd, "store.region", i))
      city == getRandomElement(cityByRegion[region], MathRandom(rnd, "store.city", i))
      storeType == getRandomElement(storeTypes, MathRandom(rnd, "store.type", i))
      coordinates == getRandomCoordinates(region, MathRandom(rnd, "store.lat", i),
                                          MathRandom(rnd, "store.lng", i))
      openDate == FloorRandomTimes(MathRandom(rnd, "store.openDate", i), 2921)
      size == getRandomInt(5000, 20000, MathRandom(rnd, "store.size", i))
      streetNumber == getRandomInt(100, 999, MathRandom(rnd, "store.streetNumber", i))
      street == getRandomElement(streets, MathRandom(rnd, "store.street", i))
      managerFirstName == getRandomElement(firstNames, MathRandom(rnd, "store.first", i))
      managerLastName == getRandomElement(lastNames, MathRandom(rnd, "store.last", i))
  IN [id |-> storeId,
      name |-> IF storeType = "Flagship"
               THEN "FashionForward " \o city \o " Flagship"
               ELSE "FashionForward " \o city,
      region |-> region,
      type |-> storeType,
      address |-> ToString(streetNumber) \o " " \o street \o ", " \o city,
      openDate |-> openDate,
      size |-> size,
      coordinates |-> coordinates,
      manager |-> managerFirstName \o " " \o managerLastName]

generateStores(count, rnd) == [i \in 1..count |-> StoreRecord(i, rnd)]

(***************************************************************************)
(* generateSalesData.  avgValue, percentOfTotal, percentOfRegion,          *)
(* averageTransactionValue and conversionRate are in hundredths;           *)
(* percentChange is in tenths; date is the number of days after            *)
(* 2023-01-01.                                                             *)
(***************************************************************************)
\* Math.round((new Date(2023, 3, 30) - new Date(2023, 0, 1)) / oneDay)
totalDays == 119

DailyRecord(i, rnd) ==
  LET dailySales == getRandomInt(80000, 120000, MathRandom(rnd, "sales.dailySales", i + 1))
      transactions == getRandomInt(1200, 1800, MathRandom(rnd, "sales.transactions", i + 1))
  IN [date |-> i,
      sales |-> dailySales,
      transactions |-> transactions,
      avgValue |-> toFixed(dailySales, transactions, 100)]

\* Mutant of RegionRecord: the stores are not filtered by region.
RegionRecordCountingAll(n, stores, rnd) ==
  [region |-> regions[n],
   sales |-> getRandomInt(800000, 1200000, MathRandom(rnd, "sales.regionSales", n)),
   percentOfTotal |-> 0,
   storeCount |-> Len(stores)]

RegionRecord(n, stores, rnd) ==
  LET region == regions[n]
      regionStores == {s \in 1..Len(stores) : stores[s].region = region}
  IN [region |-> region,
      sales |-> getRandomInt(800000, 1200000, MathRandom(rnd, "sales.regionSales", n)),
      percentOfTotal |-> 0,
      storeCount |-> Cardinality(regionStores)]

\* comparisonSales = categorySales * (1 - f/100), f the random change in
\* hundredths; percentChange = (categorySales - comparisonSales) /
\* comparisonSales * 100 = 100 f / (100 - f), to one decimal.
CategoryRecordAdding(n, rnd) ==
  LET categorySales == getRandomInt(500000, 1500000, MathRandom(rnd, "sales.categorySales", n))
      f == getRandomFloat(-10, 20, MathRandom(rnd, "sales.categoryChange", n))
  IN [category |-> categories[n],
      sales |-> categorySales,
      percentOfTotal |-> 0,
      comparisonSales |-> MathRound(categorySales * (100 + f), 100),
      percentChange |-> toFixed(-100 * f, 100 + f, 10)]

CategoryRecord(n, rnd) ==
  LET categorySales == getRandomInt(500000, 1500000, MathRandom(rnd, "sales.categorySales", n))
      f == getRandomFloat(-10, 20, MathRandom(rnd, "sales.categoryChange", n))
  IN [category |-> categories[n],
      sales |-> categorySales,
      percentOfTotal |-> 0,
      comparisonSales |-> MathRound(categorySales * (100 - f), 100),
      percentChange |-> toFixed(100 * f, 100 - f, 10)]

\* Mutant of WithPercentOfTotal: a percentage instead of a fraction.
WithPercentOfTotalTimes100(records, total) ==
  [n \in 1..Len(records) |->
     [records[n] EXCEPT !.percentOfTotal = toFixed(100 * records[n].sales, total, 100)]]

\* The two "Calculate percentages" passes: sales / total to 2 decimals.
WithPercentOfTotal(records, total) ==
  [n \in 1..Len(records) |->
     [records[n] EXCEPT !.percentOfTotal = toFixed(records[n].sales, total, 100)]]

StoreSalesRecordUnwrapped(n, stores, rnd) ==
  LET store == stores[n]
      index == n - 1
      storeSales == getRandomInt(100000, 300000, MathRandom(rnd, "sales.storeSales", n))
      regionStores == {s \in 1..Len(stores) : stores[s].region = store.region}
      regionTotalSales == Cardinality(regionStores) * 200000
  IN [storeId |-> store.id,
      storeName |-> store.name,
      sales |-> storeSales,
      rank |-> index + 1,
      percentOfRegion |-> toFixed(storeSales, regionTotalSales, 100),
      percentChange |-> getRandomFloat(-100, 150, MathRandom(rnd, "sales.storeChange", n))]

StoreSalesRecordAmongOthers(n, stores, rnd) ==
  LET store == stores[n]
      index == n - 1
      storeSales == getRandomInt(100000, 300000, MathRandom(rnd, "sales.storeSales", n))
      regionStores == {s \in 1..Len(stores) : s # n /\ stores[s].region = store.region}
      regionTotalSales == Cardinality(regionStores) * 200000
  IN [storeId |-> store.id,
      storeName |-> store.name,
      sales |-> storeSales,
      rank |-> (index % 50) + 1,
      percentOfRegion |-> toFixed(storeSales, regionTotalSales, 100),
      percentChange |-> getRandomFloat(-100, 150, MathRandom(rnd, "sales.storeChange", n))]

StoreSalesRecord(n, stores, rnd) ==
  LET store == stores[n]
      index == n - 1
      storeSales == getRandomInt(100000, 300000, MathRandom(rnd, "sales.storeSales", n))
      regionStores == {s \in 1..Len(stores) : stores[s].region = store.region}
      regionTotalSales == Cardinality(regionStores) * 200000
  IN [storeId |-> store.id,
      storeName |-> store.name,
      sales |-> storeSales,
      rank |-> (index % 50) + 1,
      percentOfRegion |-> toFixed(storeSales, regionTotalSales, 100),
      percentChange |-> getRandomFloat(-100, 150, MathRandom(rnd, "sales.storeChange", n))]

SalesSummary(totalSales, totalTransactions, rnd) ==
  LET f == getRandomFloat(-5, 10, MathRandom(rnd, "sales.summaryChange", 1))
  IN [totalSales |-> totalSales,
      comparisonSales |-> MathRound(totalSales * (100 - f), 100),
      percentChange |-> toFixed(100 * f, 100 - f, 10),
      averageTransactionValue |-> toFixed(totalSales, totalTransactions, 100),
      transactionCount |-> totalTransactions,
      conversionRate |-> getRandomFloat(20, 30, MathRandom(rnd, "sales.conversionRate", 1))]

\* Mutant of TotalSales: the regions' sales are left out of the total.
TotalSalesOfDatesOnly(dateSales, regionSales) == dateSales

\* let totalSales = 0; totalSales += dailySales (each day);
\* totalSales += regionSales (each region).
TotalSales(dateSales, regionSales) == 0 + dateSales + regionSales

generateSalesData(stores, rnd) ==
  LET byDate == [d \in 1..totalDays |-> DailyRecord(d - 1, rnd)]
      dateSales == SumOver([d \in 1..totalDays |-> byDate[d].sales], 1, totalDays)
      totalTransactions ==
        SumOver([d \in 1..totalDays |-> byDate[d].transactions], 1, totalDays)
      byRegion0 == [n \in 1..Len(regions) |-> RegionRecord(n, stores, rnd)]
      totalRegionSales ==
        SumOver([n \in 1..Len(byRegion0) |-> byRegion0[n].sales], 1, Len(byRegion0))
      totalSales == TotalSales(dateSales, totalRegionSales)
      byCategory0 == [n \in 1..Len(categories) |-> CategoryRecord(n, rnd)]
      totalCategorySales ==
        SumOver([n \in 1..Len(byCategory0) |-> byCategory0[n].sales], 1, Len(byCategory0))
  IN [summary |-> SalesSummary(totalSales, totalTransactions, rnd),
      byDate |-> byDate,
      byRegion |-> WithPercentOfTotal(byRegion0, totalRegionSales),
      byCategory |-> WithPercentOfTotal(byCategory0, totalCategorySales),
      byStore |-> [n \in 1..Len(stores) |-> StoreSalesRecord(n, stores, rnd)]]

(***************************************************************************)
(* generateInventoryData.  turnoverRate is in tenths, outOfStockPercentage *)
(* in hundredths; the out-of-stock fraction is drawn in thousandths.       *)
(***************************************************************************)
InventoryCategoryRecord(n, rnd) ==
  [category |-> categories[n],
   value |-> getRandomInt(800000, 1500000, MathRandom(rnd, "inv.cat.value", n)),
   itemCount |-> getRandomInt(50000, 100000, MathRandom(rnd, "inv.cat.itemCount", n)),
   turnoverRate |-> getRandomFloat(25, 38, MathRandom(rnd, "inv.cat.turnoverRate", n))]

InventoryStoreRecord(n, stores, rnd) ==
  LET store == stores[n]
      itemCount == getRandomInt(15000, 30000, MathRandom(rnd, "inv.store.itemCount", n))
      fraction == getRandomFloat(10, 50, MathRandom(rnd, "inv.store.outOfStock", n))
  IN [storeId |-> store.id,
      storeName |-> store.name,
      value |-> getRandomInt(200000, 400000, MathRandom(rnd, "inv.store.value", n)),
      itemCount |-> itemCount,
      turnoverRate |-> getRandomFloat(25, 40, MathRandom(rnd, "inv.store.turnoverRate", n)),
      outOfStockItems |-> MathRound(itemCount * fraction, 1000)]

generateInventoryData(stores, rnd) ==
  [summary |->
     [totalValue |-> getRandomInt(4000000, 5000000, MathRandom(rnd, "inv.totalValue", 1)),
      totalItems |-> getRandomInt(300000, 350000, MathRandom(rnd, "inv.totalItems", 1)),
      turnoverRate |-> getRandomFloat(28, 35, MathRandom(rnd, "inv.turnoverRate", 1)),
      outOfStockPercentage |-> getRandomFloat(2, 6, MathRandom(rnd, "inv.outOfStock", 1))],
   byCategory |-> [n \in 1..Len(categories) |-> InventoryCategoryRecord(n, rnd)],
   byStore |-> [n \in 1..Len(stores) |-> InventoryStoreRecord(n, stores, rnd)]]

(***************************************************************************)
(* generateStoreDetails.  Draws made for the store at position s are       *)
(* numbered s * 100 + j.  percentOfStore and avgPerTransaction / avgValue  *)
(* are in hundredths, percentChange and turnoverRate in tenths.            *)
(***************************************************************************)
\* Mutant of StoreInfo: the store's fields are picked by hand and most are
\* forgotten.
StoreInfoWithoutSpread(store, staffCount) ==
  [id |-> store.id, name |-> store.name, staffCount |-> staffCount]

\* { ...store, staffCount }: the own properties of store, then staffCount.
StoreInfo(store, staffCount) == [staffCount |-> staffCount] @@ store

DepartmentRecord(n, s, rnd) ==
  [department |-> departments[n],
   sales |-> getRandomInt(20000, 150000, MathRandom(rnd, "det.dept.sales", s * 100 + n)),
   percentOfStore |->
     getRandomFloat(5, 25, MathRandom(rnd, "det.dept.percentOfStore", s * 100 + n)),
   percentChange |->
     getRandomFloat(-80, 120, MathRandom(rnd, "det.dept.percentChange", s * 100 + n))]

StaffRecord(i, s, rnd) ==
  LET j == s * 100 + i + 1
      firstName == getRandomElement(firstNames, MathRandom(rnd, "det.staff.first", j))
      lastName == getRandomElement(lastNames, MathRandom(rnd, "det.staff.last", j))
      salesTotal == getRandomInt(20000, 80000, MathRandom(rnd, "det.staff.salesTotal", j))
      transactionCount ==
        getRandomInt(200, 800, MathRandom(rnd, "det.staff.transactionCount", j))
  IN [name |-> firstName \o " " \o lastName,
      position |-> getRandomElement(positions, MathRandom(rnd, "det.staff.position", j)),
      salesTotal |-> salesTotal,
      transactionCount |-> transactionCount,
      avgPerTransaction |-> toFixed(salesTotal, transactionCount, 100)]

RECURSIVE StaffLoopInclusive(_, _, _, _)
StaffLoopInclusive(i, staffPerformance, s, rnd) ==
  IF i <= getRandomInt(5, 10, MathRandom(rnd, "det.staff.bound", s * 100 + i + 1))
  THEN StaffLoopInclusive(i + 1, Append(staffPerformance, StaffRecord(i, s, rnd)), s, rnd)
  ELSE staffPerformance

RECURSIVE StaffLoop(_, _, _, _)
\* for (let i = 0; i < getRandomInt(5, 10); i++): the bound is drawn at
\* every test of the condition.
StaffLoop(i, staffPerformance, s, rnd) ==
  IF i < getRandomInt(5, 10, MathRandom(rnd, "det.staff.bound", s * 100 + i + 1))
  THEN StaffLoop(i + 1, Append(staffPerformance, StaffRecord(i, s, rnd)), s, rnd)
  ELSE staffPerformance

ItemRecord(i, s, rnd) ==
  LET j == s * 100 + i + 1
      category == getRandomElement(categories, MathRandom(rnd, "det.item.category", j))
  IN [id |-> "P" \o ToString(getRandomInt(1000, 9999, MathRandom(rnd, "det.item.id", j))),
      name |-> getRandomElement(products[category], MathRandom(rnd, "det.item.product", j)),
      category |-> category,
      unitsSold |-> getRandomInt(50, 200, MathRandom(rnd, "det.item.unitsSold", j)),
      revenue |-> getRandomInt(5000, 15000, MathRandom(rnd, "det.item.revenue", j))]

RECURSIVE ItemLoop(_, _, _, _)
ItemLoop(i, topSellingItems, s, rnd) ==
  IF i < getRandomInt(5, 10, MathRandom(rnd, "det.item.bound", s * 100 + i + 1))
  THEN ItemLoop(i + 1, Append(topSellingItems, ItemRecord(i, s, rnd)), s, rnd)
  ELSE topSellingItems

\* The (year, quarter) pairs the two nested loops visit, in order.
QuarterLoop == [n \in 1..8 |-> [year |-> 2022 + (n - 1) \div 4, quarter |-> ((n - 1) % 4) + 1]]

\* Mutant of QuarterSkipped: the cut is one quarter early.
QuarterSkippedFromQ2(p) == p.year = 2023 /\ p.quarter >= 2

\* if (year === 2023 && quarter > 2) continue;
QuarterSkipped(p) == p.year = 2023 /\ p.quarter > 2

HistoryRecord(p, j, rnd) ==
  LET sales == getRandomInt(200000, 400000, MathRandom(rnd, "det.hist.sales", j))
      transactions == getRandomInt(3000, 6000, MathRandom(rnd, "det.hist.transactions", j))
  IN [year |-> p.year,
      quarter |-> p.quarter,
      sales |-> sales,
      transactions |-> transactions,
      avgValue |-> toFixed(sales, transactions, 100)]

RECURSIVE HistoryLoop(_, _, _, _)
HistoryLoop(n, historicalPerformance, s, rnd) ==
  IF n > Len(QuarterLoop) THEN historicalPerformance
  ELSE IF QuarterSkipped(QuarterLoop[n])
       THEN HistoryLoop(n + 1, historicalPerformance, s, rnd)
       ELSE HistoryLoop(n + 1,
                        Append(historicalPerformance,
                               HistoryRecord(QuarterLoop[n],
                                             s * 100 + Len(historicalPerformance) + 1, rnd)),
                        s, rnd)

StoreDetail(store, s, rnd) ==
  [storeInfo |->
     StoreInfo(store, getRandomInt(20, 60, MathRandom(rnd, "det.staffCount", s))),
   salesByDepartment |-> [n \in 1..Len(departments) |-> DepartmentRecord(n, s, rnd)],
   staffPerformance |-> StaffLoop(0, <<>>, s, rnd),
   inventoryDetails |->
     [totalValue |-> getRandomInt(200000, 400000, MathRandom(rnd, "det.totalValue", s)),
      turnoverRate |-> getRandomFloat(25, 40, MathRandom(rnd, "det.turnoverRate", s)),
      topSellingItems |-> ItemLoop(0, <<>>, s, rnd)],
   historicalPerformance |-> HistoryLoop(1, <<>>, s, rnd)]

\* Mutant of DetailKey: the details are filed under the store's name.
DetailKeyByName(store) == store.name

\* The key under which storeDetails[store.id] = ... files a store.
DetailKey(store) == store.id

\* An object keyed by store id; a later store with the same key replaces
\* an earlier one.
generateStoreDetails(stores, rnd) ==
  [key \in {DetailKey(stores[s]) : s \in 1..Len(stores)} |->
     LET last == CHOOSE s \in 1..Len(stores) :
                   /\ DetailKey(stores[s]) = key
                   /\ \A t \in 1..Len(stores) : DetailKey(stores[t]) = key => t <= s
     IN StoreDetail(stores[last], last, rnd)]

(***************************************************************************)
(* JavaScript values the handlers deal in.                                 *)
(***************************************************************************)
Null == [jsValue |-> "null"]
Undefined == [jsValue |-> "undefined"]
EmptyObject == <<>>

\* The properties every object literal inherits from Object.prototype.
ObjectPrototype ==
  {"constructor", "__proto__", "hasOwnProperty", "isPrototypeOf",
   "propertyIsEnumerable", "toLocaleString", "toString", "valueOf",
   "__defineGetter__", "__defineSetter__", "__lookupGetter__", "__lookupSetter__"}

\* object[key] on an object literal: its own property, else the inherited
\* one, else undefined.
GetProperty(object, key) ==
  IF key \in DOMAIN object THEN object[key]
  ELSE IF key \in ObjectPrototype THEN [jsValue |-> "Object.prototype." \o key]
  ELSE Undefined

Falsy(v) == v \in {Null, Undefined}

\* a || b
OrElse(a, b) == IF Falsy(a) THEN b ELSE a

(***************************************************************************)
(* The in-memory store and its initialization.                             *)
(***************************************************************************)
VARIABLES
  mockDataStore,   \* the module-level object
  phase,           \* "loading" while the module body runs, then "ready"
  call,            \* the last call made through the exports and its result
  args,            \* a generator checked on its own: its arguments ...
  result           \* ... and what it returned

vars == <<mockDataStore, phase, call, args, result>>

Streams == {Stream(seed) : seed \in 0..(Grid + Seeds)}

InitialStore ==
  [stores |-> <<>>,
   salesData |-> EmptyObject,
   inventoryData |-> EmptyObject,
   storeDetails |-> EmptyObject,
   filters |-> [regions |-> regions,
                storeTypes |-> storeTypes,
                categories |-> categories,
                departments |-> departments,
                timeRanges |-> timeRanges]]

initializeMockData(store, rnd) ==
  LET stores == generateStores(StoreCount, rnd)
  IN [store EXCEPT !.stores = stores,
                   !.salesData = generateSalesData(stores, rnd),
                   !.inventoryData = generateInventoryData(stores, rnd),
                   !.storeDetails = generateStoreDetails(stores, rnd)]

handleGetStores(store) == store.stores

\* Mutant of handleGetSales: the region parameter is honoured.
handleGetSalesFiltered(store, params) ==
  IF params = "{region: 'Northeast'}"
  THEN [store.salesData EXCEPT
          !.byRegion = SelectSeq(@, LAMBDA r : r.region = "Northeast")]
  ELSE store.salesData

handleGetSales(store, params) == store.salesData

handleGetInventory(store, params) == store.inventoryData

handleGetStoreDetails(store, storeId) ==
  OrElse(GetProperty(store.storeDetails, storeId), Null)

\* Mutant of handleGetFilters: the regions offered are those of the
\* generated stores.
handleGetFiltersFromData(store) ==
  [store.filters EXCEPT
     !.regions = SelectSeq(@, LAMBDA r : \E n \in 1..Len(store.stores) :
                                           store.stores[n].region = r)]

handleGetFilters(store) == store.filters

NoCall == [op |-> "none", arg |-> "", result |-> Undefined]
Idle == [fn |-> "none"]
NotReturned == [returned |-> FALSE]
Returned(value) == [returned |-> TRUE, value |-> value]

\* Query parameters a caller may pass: none, empty, well-formed, malformed.
Params ==
  {"undefined", "{}", "{region: 'Northeast'}",
   "{startDate: '2023-01-01', endDate: '2023-03-31'}",
   "{storeIds: ',,', region: 42}", "null"}

\* Store ids a caller may ask for.
StoreIdArgs ==
  {StoreId(i) : i \in 1..(StoreCount + 1)}
    \cup {"INVALID_ID", "", "ST1", "st001", "constructor", "toString", "__proto__"}

Init ==
  /\ mockDataStore = InitialStore
  /\ phase = "loading"
  /\ call = NoCall
  /\ args = Idle
  /\ result = NotReturned

\* The last statement of the module: initializeMockData().
ModuleLoad ==
  /\ phase = "loading"
  /\ \E rnd \in Streams : mockDataStore' = initializeMockData(mockDataStore, rnd)
  /\ phase' = "ready"
  /\ call' = [op |-> "require", arg |-> "", result |-> Undefined]
  /\ UNCHANGED <<args, result>>

\* exports.initializeMockData()
CallInitializeMockData ==
  /\ phase = "ready"
  /\ \E rnd \in Streams : mockDataStore' = initializeMockData(mockDataStore, rnd)
  /\ call' = [op |-> "initializeMockData", arg |-> "", result |-> Undefined]
  /\ UNCHANGED <<phase, args, result>>

CallGetStores ==
  /\ phase = "ready"
  /\ call' = [op |-> "handleGetStores", arg |-> "",
              result |-> handleGetStores(mockDataStore)]
  /\ UNCHANGED <<mockDataStore, phase, args, result>>

CallGetSales ==
  /\ phase = "ready"
  /\ \E params \in Params :
       call' = [op |-> "handleGetSales", arg |-> params,
                result |-> handleGetSales(mockDataStore, params)]
  /\ UNCHANGED <<mockDataStore, phase, args, result>>

CallGetInventory ==
  /\ phase = "ready"
  /\ \E params \in Params :
       call' = [op |-> "handleGetInventory", arg |-> params,
                result |-> handleGetInventory(mockDataStore, params)]
  /\ UNCHANGED <<mockDataStore, phase, args, result>>

CallGetStoreDetails ==
  /\ phase = "ready"
  /\ \E storeId \in StoreIdArgs :
       call' = [op |-> "handleGetStoreDetails", arg |-> storeId,
                result |-> handleGetStoreDetails(mockDataStore, storeId)]
  /\ UNCHANGED <<mockDataStore, phase, args, result>>

CallGetFilters ==
  /\ phase = "ready"
  /\ call' = [op |-> "handleGetFilters", arg |-> "",
              result |-> handleGetFilters(mockDataStore)]
  /\ UNCHANGED <<mockDataStore, phase, args, result>>

Next ==
  \/ ModuleLoad
  \/ CallInitializeMockData
  \/ CallGetStores
  \/ CallGetSales
  \/ CallGetInventory
  \/ CallGetStoreDetails
  \/ CallGetFilters

Spec == Init /\ [][Next]_vars

(***************************************************************************)
(* Claims about the module's life: load, then calls through the exports.   *)
(***************************************************************************)
StoreIds(store) == {store.stores[n].id : n \in 1..Len(store.stores)}

StoreWithId(store, id) ==
  store.stores[CHOOSE n \in 1..Len(store.stores) : store.stores[n].id = id]

Handlers ==
  {"handleGetStores", "handleGetSales", "handleGetInventory",
   "handleGetStoreDetails", "handleGetFilters"}

\* C2: once initializeMockData has completed (at load, and again after any
\* later call of it), the keys of storeDetails are exactly the ids of the
\* stores, one entry per store.
C2_DetailKeysAreStoreIds ==
  phase = "ready" =>
    /\ DOMAIN mockDataStore.storeDetails = StoreIds(mockDataStore)
    /\ Cardinality(DOMAIN mockDataStore.storeDetails) = Len(mockDataStore.stores)

C2_Witness ==
  /\ phase = "ready"
  /\ call.op = "initializeMockData"
  /\ Len(mockDataStore.stores) = StoreCount
  /\ StoreId(StoreCount) \in DOMAIN mockDataStore.storeDetails

\* C3: handleGetStoreDetails returns null for every string that is not the
\* id of a store.
C3_UnknownIdYieldsNull ==
  (call.op = "handleGetStoreDetails" /\ call.arg \notin StoreIds(mockDataStore))
    => call.result = Null

StoreFields ==
  {"id", "name", "region", "type", "address", "openDate", "size", "coordinates",
   "manager"}

DetailSections ==
  {"storeInfo", "salesByDepartment", "staffPerformance", "inventoryDetails",
   "historicalPerformance"}

\* C4: for the id of a store, handleGetStoreDetails returns a record with
\* the five sections (inventoryDetails holding topSellingItems) whose
\* storeInfo carries the store's nine fields unchanged and a staffCount in
\* 20..60.
C4_DetailOfKnownId ==
  (call.op = "handleGetStoreDetails" /\ call.arg \in StoreIds(mockDataStore)) =>
    LET detail == call.result
        store == StoreWithId(mockDataStore, call.arg)
    IN /\ DOMAIN detail = DetailSections
       /\ "topSellingItems" \in DOMAIN detail.inventoryDetails
       /\ DOMAIN detail.storeInfo = StoreFields \cup {"staffCount"}
       /\ detail.storeInfo.id = call.arg
       /\ \A f \in StoreFields : detail.storeInfo[f] = store[f]
       /\ detail.storeInfo.staffCount \in 20..60

C4_Witness ==
  /\ call.op = "handleGetStoreDetails"
  /\ call.arg = StoreId(StoreCount)
  /\ call.arg \in StoreIds(mockDataStore)
  /\ call.result.storeInfo.staffCount = 60
  /\ call.result.storeInfo.type = "Flagship"

\* C5: after the load-time initialization nothing reachable through the
\* exports changes stores, salesData, inventoryData or storeDetails.
C5_PopulatedOnce ==
  [][phase = "ready" =>
       /\ mockDataStore'.stores = mockDataStore.stores
       /\ mockDataStore'.salesData = mockDataStore.salesData
       /\ mockDataStore'.inventoryData = mockDataStore.inventoryData
       /\ mockDataStore'.storeDetails = mockDataStore.storeDetails]_vars

FilterNames == {"regions", "storeTypes", "categories", "departments", "timeRanges"}

IsTheFilters(f) ==
  /\ DOMAIN f = FilterNames
  /\ \A name \in FilterNames : Len(f[name]) > 0
  /\ f.regions = <<"Northeast", "Southeast", "Midwest", "Southwest", "West">>
  /\ f.storeTypes = <<"Mall", "Street", "Outlet", "Flagship">>
  /\ f.categories = <<"Men's", "Women's", "Children's", "Accessories", "Footwear">>
  /\ Len(f.departments) = 8 /\ f.departments = departments
  /\ Len(f.timeRanges) = 10 /\ f.timeRanges = timeRanges

\* C6: in every state, before and after any initialization, handleGetFilters
\* yields exactly the five non-empty constant lists.
C6_FiltersAreConstant ==
  /\ IsTheFilters(handleGetFilters(mockDataStore))
  /\ call.op = "handleGetFilters" => IsTheFilters(call.result)

C6_Witness ==
  /\ call.op = "handleGetFilters"
  /\ \E n \in 1..Len(regions) :
       \A s \in 1..Len(mockDataStore.stores) : mockDataStore.stores[s].region # regions[n]
  /\ Len(mockDataStore.stores) = StoreCount

Quarters ==
  <<[year |-> 2022, quarter |-> 1], [year |-> 2022, quarter |-> 2],
    [year |-> 2022, quarter |-> 3], [year |-> 2022, quarter |-> 4],
    [year |-> 2023, quarter |-> 1], [year |-> 2023, quarter |-> 2]>>

\* C8: every store's historicalPerformance has exactly the six entries
\* 2022Q1, 2022Q2, 2022Q3, 2022Q4, 2023Q1, 2023Q2, in that order.
C8_SixQuarters ==
  \A id \in DOMAIN mockDataStore.storeDetails :
    LET h == mockDataStore.storeDetails[id].historicalPerformance
    IN /\ Len(h) = 6
       /\ \A n \in 1..6 : h[n].year = Quarters[n].year /\ h[n].quarter = Quarters[n].quarter

C8_Witness ==
  /\ phase = "ready"
  /\ Cardinality(DOMAIN mockDataStore.storeDetails) = StoreCount
  /\ \A id \in DOMAIN mockDataStore.storeDetails :
       mockDataStore.storeDetails[id].historicalPerformance[6].quarter = 2

Counts == 0..MaxCount \cup {LargeCount}

InitStores ==
  /\ mockDataStore = InitialStore
  /\ phase = "loading"
  /\ call = NoCall
  /\ args \in [fn : {"generateStores"}, count : Counts, rnd : Streams]
  /\ result = NotReturned

ApplyGenerateStores ==
  /\ args.fn = "generateStores"
  /\ ~result.returned
  /\ result' = Returned(generateStores(args.count, args.rnd))
  /\ UNCHANGED <<mockDataStore, phase, call, args>>

NextStores == ApplyGenerateStores

SpecStores == InitStores /\ [][NextStores]_vars

\* 'ST' followed by i in decimal, with zeros in front up to three digits.
ExpectedId(i) ==
  "ST" \o (IF i < 10 THEN "00" ELSE IF i < 100 THEN "0" ELSE "") \o ToString(i)

\* C1: generateStores(n) returns n records, the i-th with id 'ST' and i
\* zero-padded to at least three digits, all ids distinct, whatever the
\* random draws.
C1_StoreCountAndIds ==
  result.returned =>
    LET stores == result.value
    IN /\ Len(stores) = args.count
       /\ \A i \in 1..Len(stores) :
            /\ stores[i].id = ExpectedId(i)
            /\ Len(stores[i].id) = (IF i < 1000 THEN 5 ELSE 6)
       /\ \A i, j \in 1..Len(stores) : stores[i].id = stores[j].id => i = j

C1_Witness ==
  /\ result.returned
  /\ args.count = LargeCount
  /\ Len(result.value) >= 1000
  /\ result.value[7].id = "ST007"
  /\ result.value[1000].id = "ST1000"
  /\ result.value[1].region # result.value[2].region

(***************************************************************************)
(* generateSalesData on its own.  The store lists are those generateStores *)
(* returns, among them every combination of regions and lists of          *)
(* ManyStores stores; the random sources are the streams and, for two      *)
(* store lists, every combination of draws for the regions' sales, for the *)
(* categories' sales and for the categories' changes.                      *)
(***************************************************************************)
\* Every combination of the n draws numbered offset + 1 .. offset + n at
\* one call site.
FocusedFrom(site, offset, n) ==
  {[seed |-> Grid + 1, site |-> site, offset |-> offset, vals |-> v] :
     v \in [1..n -> 0..Grid]}

Focused(site, n) == FocusedFrom(site, 0, n)

\* Store lists with every combination of region draws.
RegionStoreLists ==
  {generateStores(StoreCount, rnd) : rnd \in Focused("store.region", StoreCount)}

\* Store lists as long as the one initializeMockData asks for.
ManyStoreLists == {generateStores(ManyStores, rnd) : rnd \in Streams}

SalesStoreLists == {generateStores(n, rnd) : n \in 0..StoreCount, rnd \in Streams}

SalesArgs ==
  [fn : {"generateSalesData"}, stores : SalesStoreLists, rnd : Streams]
    \cup [fn : {"generateSalesData"},
          stores : {generateStores(0, Stream(0)), generateStores(StoreCount, Stream(Grid + 1))},
          rnd : Focused("sales.regionSales", Len(regions))
                  \cup Focused("sales.categorySales", Len(categories))
                  \cup Focused("sales.categoryChange", Len(categories))]
    \cup [fn : {"generateSalesData"}, stores : RegionStoreLists,
          rnd : {Stream(Grid + 1)}]
    \cup [fn : {"generateSalesData"}, stores : ManyStoreLists,
          rnd : {Stream(0), Stream(Grid + 1)}]

InitSales ==
  /\ mockDataStore = InitialStore
  /\ phase = "loading"
  /\ call = NoCall
  /\ args \in SalesArgs
  /\ result = NotReturned

ApplyGenerateSalesData ==
  /\ args.fn = "generateSalesData"
  /\ ~result.returned
  /\ result' = Returned(generateSalesData(args.stores, args.rnd))
  /\ UNCHANGED <<mockDataStore, phase, call, args>>

NextSales == ApplyGenerateSalesData

SpecSales == InitSales /\ [][NextSales]_vars

SumOf(records, field) ==
  SumOver([n \in 1..Len(records) |-> records[n][field]], 1, Len(records))

\* p (in hundredths) is n/d rounded to two decimals: |n/d - p/100| <= 0.005.
IsRoundedQuotient(p, n, d) ==
  LET q == n \div d
      r == n % d
      f == p - 100 * q
  IN 2 * Abs(100 * r - f * d) <= d

\* The percentOfTotal values are each sales / (sum of sales) to two decimals
\* and add up to 1.0 within 0.01 x 5.
PercentagesAddUp(records) ==
  /\ Len(records) = 5
  /\ Abs(SumOf(records, "percentOfTotal") - 100) <= 5
  /\ \A n \in 1..Len(records) :
       IsRoundedQuotient(records[n].percentOfTotal, records[n].sales,
                         SumOf(records, "sales"))

\* C7: for every store list and every draw, the percentOfTotal values of
\* byRegion, and those of byCategory, sum to 1.0 within 0.01 x 5.
C7_PercentOfTotalSums ==
  result.returned =>
    /\ PercentagesAddUp(result.value.byRegion)
    /\ PercentagesAddUp(result.value.byCategory)

C7_Witness ==
  /\ result.returned
  /\ SumOf(result.value.byRegion, "percentOfTotal") = 99
  /\ \E n \in 1..5 : result.value.byRegion[n].sales = 800000
  /\ \E n \in 1..5 : result.value.byRegion[n].sales = 1200000
  /\ PercentagesAddUp(result.value.byCategory)

\* C10: summary.totalSales is the byDate sales plus the byRegion sales (and
\* nothing else), transactionCount is the byDate transactions, and
\* averageTransactionValue is their quotient to two decimals.
C10_SummaryTotals ==
  result.returned =>
    LET sales == result.value
    IN /\ sales.summary.totalSales
            = SumOf(sales.byDate, "sales") + SumOf(sales.byRegion, "sales")
       /\ sales.summary.transactionCount = SumOf(sales.byDate, "transactions")
       /\ IsRoundedQuotient(sales.summary.averageTransactionValue,
                            sales.summary.totalSales, sales.summary.transactionCount)

C10_Witness ==
  /\ result.returned
  /\ Len(result.value.byDate) = totalDays
  /\ Len(result.value.byStore) = StoreCount
  /\ result.value.summary.totalSales
       = SumOf(result.value.byDate, "sales") + SumOf(result.value.byRegion, "sales")
  /\ SumOf(result.value.byCategory, "sales") > 0
  /\ SumOf(result.value.byStore, "sales") > 0
  /\ \E m, n \in 1..totalDays :
       result.value.byDate[m].sales # result.value.byDate[n].sales

\* C11: byRegion has one record per region, in the order of regions, whose
\* storeCount is the number of stores of the list in that region; the
\* storeCounts add up to the number of stores.
C11_RegionStoreCounts ==
  (result.returned /\ args.fn = "generateSalesData") =>
    LET byRegion == result.value.byRegion
    IN /\ Len(byRegion) = 5
       /\ \A n \in 1..5 :
            /\ byRegion[n].region = regions[n]
            /\ byRegion[n].storeCount
                 = Len(SelectSeq(args.stores, LAMBDA store : store.region = regions[n]))
       /\ SumOf(byRegion, "storeCount") = Len(args.stores)

C11_Witness ==
  /\ result.returned
  /\ args.fn = "generateSalesData"
  /\ Len(args.stores) = StoreCount
  /\ result.value.byRegion[1].storeCount = 1
  /\ result.value.byRegion[3].storeCount = StoreCount - 1
  /\ result.value.byRegion[2].storeCount = 0

\* C12 (as stated): in every byCategory record the percent change of sales
\* against the comparison value lies between -20 and +10 (percentChange is
\* held in tenths of a percent).
C12_PercentChangeRange ==
  (result.returned /\ args.fn = "generateSalesData") =>
    \A n \in 1..Len(result.value.byCategory) :
      result.value.byCategory[n].percentChange \in -200..100

\* C12 (amended): the comparison value is sales * (1 - r) with r drawn from
\* [-0.1, 0.2], that is between 80% and 110% of sales, so the percent change
\* of sales against it, r / (1 - r) * 100, lies between -9.1 and +25.0.
C12_PercentChangeOfInvertedDraw ==
  (result.returned /\ args.fn = "generateSalesData") =>
    \A n \in 1..Len(result.value.byCategory) :
      LET record == result.value.byCategory[n]
      IN /\ record.percentChange \in -91..250
         /\ 100 * record.comparisonSales >= 80 * record.sales - 50
         /\ 100 * record.comparisonSales <= 110 * record.sales + 50
         /\ (record.percentChange > 0) = (record.comparisonSales < record.sales)

C12_Witness ==
  /\ result.returned /\ args.fn = "generateSalesData"
  /\ \E n \in 1..Len(categories) : result.value.byCategory[n].percentChange = 250
  /\ \E n \in 1..Len(categories) : result.value.byCategory[n].percentChange = -91

\* C13: byStore has exactly one record per store, in the order of the store
\* list and carrying that store's id and name; the record at 0-based index i
\* has rank (i mod 50) + 1, so every rank is in 1..50 and records whose
\* indices differ by a multiple of 50 have the same rank whatever their sales.
C13_StoreRanks ==
  (result.returned /\ args.fn = "generateSalesData") =>
    LET byStore == result.value.byStore
    IN /\ Len(byStore) = Len(args.stores)
       /\ \A n \in 1..Len(byStore) :
            /\ byStore[n].storeId = args.stores[n].id
            /\ byStore[n].storeName = args.stores[n].name
            /\ byStore[n].rank = ((n - 1) % 50) + 1
            /\ byStore[n].rank \in 1..50
            /\ \A m \in 1..Len(byStore) :
                 (m - n) % 50 = 0 => byStore[m].rank = byStore[n].rank

C13_Witness ==
  /\ result.returned /\ args.fn = "generateSalesData" /\ Len(args.stores) > 150
  /\ result.value.byStore[50].rank = 50
  /\ \E n \in 1..50 :
       /\ result.value.byStore[n].rank = result.value.byStore[n + 150].rank
       /\ result.value.byStore[n].sales < result.value.byStore[n + 150].sales

(***************************************************************************)
(* generateStoreDetails on its own: the argument is a store list, the      *)
(* draws are a stream or every combination of the draws that decide how    *)
(* the first store's two loops end and what its items are.                 *)
(***************************************************************************)
DetailStoreLists == {generateStores(n, Stream(Grid + 1)) : n \in 0..StoreCount}

DetailsArgs ==
  [fn : {"generateStoreDetails"}, stores : DetailStoreLists, rnd : Streams]
    \cup [fn : {"generateStoreDetails"},
          stores : {generateStores(1, Stream(Grid + 1))},
          rnd : FocusedFrom("det.staff.bound", 105, 5)
                  \cup FocusedFrom("det.item.bound", 105, 5)
                  \cup FocusedFrom("det.item.category", 100, 3)
                  \cup FocusedFrom("det.item.product", 100, 3)]

InitDetails ==
  /\ mockDataStore = InitialStore
  /\ phase = "loading"
  /\ call = NoCall
  /\ args \in DetailsArgs
  /\ result = NotReturned

ApplyGenerateStoreDetails ==
  /\ args.fn = "generateStoreDetails"
  /\ ~result.returned
  /\ result' = Returned(generateStoreDetails(args.stores, args.rnd))
  /\ UNCHANGED <<mockDataStore, phase, call, args>>

NextDetails == ApplyGenerateStoreDetails

SpecDetails == InitDetails /\ [][NextDetails]_vars

IsIn(x, array) == \E n \in 1..Len(array) : array[n] = x

\* C14: for every store the staffPerformance list and the topSellingItems
\* list each end with between 5 and 10 entries, although the bound
\* getRandomInt(5, 10) is drawn anew at every test of the loop condition;
\* and the name of every topSellingItems entry is one of the products of
\* that entry's own category.
C14_LoopLengthsAndProducts ==
  (result.returned /\ args.fn = "generateStoreDetails") =>
    \A id \in DOMAIN result.value :
      LET staffPerformance == result.value[id].staffPerformance
          topSellingItems == result.value[id].inventoryDetails.topSellingItems
      IN /\ Len(staffPerformance) \in 5..10
         /\ Len(topSellingItems) \in 5..10
         /\ \A n \in 1..Len(topSellingItems) :
              /\ IsIn(topSellingItems[n].category, categories)
              /\ IsIn(topSellingItems[n].name, products[topSellingItems[n].category])

\* The bound drawn at one test lets the loop go on and the bound drawn at a
\* later test is smaller than the one before: a list of 7 after a draw of 10.
C14_Witness ==
  /\ result.returned /\ args.fn = "generateStoreDetails"
  /\ args.rnd.site = "det.staff.bound"
  /\ args.rnd.vals[1] = Grid /\ args.rnd.vals[2] = Grid /\ args.rnd.vals[3] = 0
  /\ \E id \in DOMAIN result.value :
       /\ Len(result.value[id].staffPerformance) = 7
       /\ Len(result.value[id].inventoryDetails.topSellingItems) \in 5..10

(***************************************************************************)
(* The two generators that divide, side by side.                           *)
(***************************************************************************)
InitGenerators == InitSales \/ InitDetails

NextGenerators ==
  \/ ApplyGenerateSalesData
  \/ ApplyGenerateStoreDetails

SpecGenerators == InitGenerators /\ [][NextGenerators]_vars

\* The stores the byStore record of stores[n] is measured against.
RegionStoresOf(stores, n) == {s \in 1..Len(stores) : stores[s].region = stores[n].region}

\* C15: no division made while generating has a zero divisor, whatever the
\* store list, the empty one included: the regional total of every byStore
\* record (stores of its region times 200000) is at least 200000, the
\* byRegion and byCategory sales totals are positive, every per-day,
\* per-staff and per-quarter transaction count is positive and so is the
\* summary's; hence no generated ratio is infinite or NaN.
C15_NoZeroDivisor ==
  /\ (result.returned /\ args.fn = "generateSalesData") =>
       LET data == result.value
       IN /\ \A n \in 1..Len(data.byStore) :
               /\ Cardinality(RegionStoresOf(args.stores, n)) * 200000 >= 200000
               /\ isFinite(data.byStore[n].percentOfRegion)
          /\ SumOf(data.byRegion, "sales") > 0
          /\ SumOf(data.byCategory, "sales") > 0
          /\ \A n \in 1..Len(data.byRegion) : isFinite(data.byRegion[n].percentOfTotal)
          /\ \A n \in 1..Len(data.byCategory) :
               /\ isFinite(data.byCategory[n].percentOfTotal)
               /\ isFinite(data.byCategory[n].percentChange)
          /\ \A n \in 1..Len(data.byDate) :
               /\ data.byDate[n].transactions > 0
               /\ isFinite(data.byDate[n].avgValue)
          /\ data.summary.transactionCount > 0
          /\ data.summary.transactionCount = SumOf(data.byDate, "transactions")
          /\ isFinite(data.summary.averageTransactionValue)
          /\ isFinite(data.summary.percentChange)
  /\ (result.returned /\ args.fn = "generateStoreDetails") =>
       \A id \in DOMAIN result.value :
         LET detail == result.value[id]
         IN /\ \A n \in 1..Len(detail.staffPerformance) :
                 /\ detail.staffPerformance[n].transactionCount > 0
                 /\ isFinite(detail.staffPerformance[n].avgPerTransaction)
            /\ \A n \in 1..Len(detail.historicalPerformance) :
                 /\ detail.historicalPerformance[n].transactions > 0
                 /\ isFinite(detail.historicalPerformance[n].avgValue)

\* A store that is the only one of its region: its sales are divided by
\* exactly 200000.
C15_Witness ==
  /\ result.returned /\ args.fn = "generateSalesData"
  /\ \E n \in 1..Len(args.stores) :
       /\ RegionStoresOf(args.stores, n) = {n}
       /\ result.value.byStore[n].percentOfRegion
            = toFixed(result.value.byStore[n].sales, 200000, 100)
       /\ result.value.byStore[n].percentOfRegion > 100

====
